---- MODULE Spec2Model ----
(***************************************************************************)
(* Shift scheduling: brain2.py, solve_shift_scheduling.                    *)
(*                                                                         *)
(* The script reads a scheduling request (data.json), assembles a CP-SAT   *)
(* model over the Boolean cube work[e, s, d], hands it to the solver and   *)
(* decodes the assignment the solver returns.  The model below keeps the   *)
(* request, the assembled constraints and the solver's assignment as the   *)
(* state.  The solver is external: it is modelled by its contract, a       *)
(* search that extends a partial assignment one day at a time and never    *)
(* keeps a partial assignment that violates a constraint whose variables   *)
(* are all assigned, so that the complete assignments it reaches are       *)
(* exactly the assignments that satisfy every constraint.                  *)
(***************************************************************************)
EXTENDS Integers, FiniteSets, Sequences, TLC

VARIABLES
    data,         \* the request loaded from data.json (brain2.py:246-308)
    pc,           \* position of the script: "loaded", "solving", "solved"
    constraints,  \* the hard constraints added to the CpModel
    objective,    \* the objective terms (obj_bool_vars / obj_int_vars with coefficients)
    pos,          \* number of days of the cube the solver has assigned
    work,         \* the triples <<e, s, d>> whose variable the solver set to true
    status,       \* solver status: "NONE" until the solver returns
    values,       \* solver.Value of the integer variables of the objective
    files,        \* the files shared by app.py and brain2.py: data.json, brain.json, OutFile.txt
    req           \* the /json requests in progress (app.py:57-72), by request

vars == <<data, pc, constraints, objective, pos, work, status, values, files, req>>

----------------------------------------------------------------------------
(* Bounds of the requests explored.                                        *)

\* Real employees range over 1..MaxEmployees (the dummy is added by the code).
MaxEmployees == 2
\* Length of the horizon in days (period_length); one week of 7 days plus the rest.
NumDays == 8
\* Demand is non-zero only on the last BusyDays days of the horizon.
BusyDays == 3
\* Size of a request: units of demand, plus one for a shift catalogue with
\* combinable shifts, plus one for skill / fixed-assignment / request tuples.
MaxRequestSize == 3

----------------------------------------------------------------------------
(* Small helpers.                                                          *)

Range0(n) == 0 .. (n - 1)        \* Python range(n)

RangeAB(a, b) == a .. (b - 1)    \* Python range(a, b)

RECURSIVE SumCoefs(_)
\* sum of the coefficients of a set of <<var, coef>> terms
SumCoefs(terms) ==
    IF terms = {} THEN 0
    ELSE LET t == CHOOSE x \in terms : TRUE
         IN  t[2] + SumCoefs(terms \ {t})

\* Value of a linear expression: terms is a set of <<var, coef>>, w the set of true variables.
SumTerms(terms, w) == SumCoefs({t \in terms : t[1] \in w})

RECURSIVE SetMax(_)
SetMax(S) ==
    IF S = {} THEN 0
    ELSE LET x == CHOOSE y \in S : TRUE
             m == SetMax(S \ {x})
         IN  IF x > m THEN x ELSE m

RECURSIVE SetMin(_)
SetMin(S) ==
    LET x == CHOOSE y \in S : TRUE
    IN  IF S = {x} THEN x
        ELSE LET m == SetMin(S \ {x}) IN IF x < m THEN x ELSE m

\* sum(work[v] for v in V): unit coefficients
Ones(V) == {<<v, 1>> : v \in V}

----------------------------------------------------------------------------
(* Constraint records: what model.Add / model.AddBoolOr / NewIntVar put    *)
(* into the CpModel.                                                       *)

\* model.Add(<linear expression> <kind> rhs), optionally .OnlyEnforceIf(enf)
Lin(rule, kind, terms, rhs, enf) ==
    [rule |-> rule, kind |-> kind, terms |-> terms, rhs |-> rhs, lo |-> 0, hi |-> 0,
     enf |-> enf, lits |-> {}, nots |-> {}, groups |-> {}]

\* v = model.NewIntVar(lo, hi, ..); model.Add(v == <linear expression> + base)
IntVarEq(rule, terms, base, lo, hi) ==
    [rule |-> rule, kind |-> "in", terms |-> terms, rhs |-> base, lo |-> lo, hi |-> hi,
     enf |-> {}, lits |-> {}, nots |-> {}, groups |-> {}]

\* model.AddBoolOr(lits + [v.Not() for v in nots])
BoolOr(rule, lits, nots) ==
    [rule |-> rule, kind |-> "or", terms |-> {}, rhs |-> 0, lo |-> 0, hi |-> 0,
     enf |-> {}, lits |-> lits, nots |-> nots, groups |-> {}]

\* v = NewIntVar(lo, hi); Add(v == base + number of groups with a positive sum)
CountEq(rule, groups, base, lo, hi) ==
    [rule |-> rule, kind |-> "count", terms |-> {}, rhs |-> base, lo |-> lo, hi |-> hi,
     enf |-> {}, lits |-> {}, nots |-> {}, groups |-> groups]

\* d = NewIntVar(..) == <linear expression> + base; v = NewIntVar(lo, hi);
\* model.AddMaxEquality(v, [d, 0])
MaxEq(rule, terms, base, lo, hi) ==
    [rule |-> rule, kind |-> "max0", terms |-> terms, rhs |-> base, lo |-> lo, hi |-> hi,
     enf |-> {}, lits |-> {}, nots |-> {}, groups |-> {}]

\* The variables of the cube a constraint reads.
VarsOf(c) ==
    {t[1] : t \in c.terms} \cup c.enf \cup c.lits \cup c.nots
        \cup UNION {{t[1] : t \in g} : g \in c.groups}

\* Does the set w of true variables satisfy constraint c?
Holds(c, w) ==
    CASE c.kind = "le" -> (c.enf \subseteq w) => SumTerms(c.terms, w) <= c.rhs
      [] c.kind = "ge" -> (c.enf \subseteq w) => SumTerms(c.terms, w) >= c.rhs
      [] c.kind = "gt" -> (c.enf \subseteq w) => SumTerms(c.terms, w) > c.rhs
      [] c.kind = "eq" -> (c.enf \subseteq w) => SumTerms(c.terms, w) = c.rhs
      [] c.kind = "in" -> LET v == SumTerms(c.terms, w) + c.rhs
                          IN  c.lo <= v /\ v <= c.hi
      [] c.kind = "max0" -> LET v == SumTerms(c.terms, w) + c.rhs
                                m == IF v > 0 THEN v ELSE 0
                            IN  c.lo <= m /\ m <= c.hi
      [] c.kind = "or" -> (c.lits \cap w # {}) \/ (c.nots \ w # {})
      [] c.kind = "count" ->
            LET v == c.rhs + Cardinality({g \in c.groups : SumTerms(g, w) > 0})
            IN  c.lo <= v /\ v <= c.hi

\* The value the integer variable of constraint c takes under w.
IntValue(c, w) ==
    LET v == SumTerms(c.terms, w) + c.rhs
    IN  IF c.kind = "max0" /\ v < 0 THEN 0 ELSE v

----------------------------------------------------------------------------
(* Pure functions of brain2.py.                                            *)

\* convert_to_minutes("HH:MM"), a time of day being the pair <<hours, minutes>>
convert_to_minutes(t_str) == 60 * t_str[1] + t_str[2]

\* variant: two windows that do not wrap overlap also when they merely touch
test_overlap_Touching(t1_st, t1_end, t2_st, t2_end) ==
    LET a1 == convert_to_minutes(t1_st)
        b1 == convert_to_minutes(t1_end)
        a2 == convert_to_minutes(t2_st)
        b2 == convert_to_minutes(t2_end)
    IN  IF b1 < a1
        THEN (IF b2 < a2 THEN TRUE ELSE (a1 < b2 \/ a2 < b1))
        ELSE IF b2 < a2
             THEN (a2 < b1 \/ a1 < b2)
             ELSE ~(a1 > b2 \/ a2 > b1)

\* test_overlap(t1_st, t1_end, t2_st, t2_end)
test_overlap(t1_st, t1_end, t2_st, t2_end) ==
    LET a1 == convert_to_minutes(t1_st)
        b1 == convert_to_minutes(t1_end)
        a2 == convert_to_minutes(t2_st)
        b2 == convert_to_minutes(t2_end)
    IN  IF b1 < a1
        THEN (IF b2 < a2 THEN TRUE ELSE (a1 < b2 \/ a2 < b1))
        ELSE IF b2 < a2
             THEN (a2 < b1 \/ a1 < b2)
             ELSE ~(a1 >= b2 \/ a2 >= b1)

\* variant: the span is not closed on the right
negated_bounded_span_NoRightBorder(works, start, length) ==
    [lits |-> IF start > 0 THEN {works[start]} ELSE {},
     nots |-> {works[start + i + 1] : i \in Range0(length)}]

\* negated_bounded_span(works, start, length): the literals of the clause, works
\* being the list of variables (works[i] of the code is works[i + 1] here)
negated_bounded_span(works, start, length) ==
    [lits |-> (IF start > 0 THEN {works[start]} ELSE {})
              \cup (IF start + length < Len(works)
                    THEN {works[start + length + 1]} ELSE {}),
     nots |-> {works[start + i + 1] : i \in Range0(length)}]

\* the clause of a span, with a penalty literal when the span is only penalized
SpanClause(rule, works, start, length, extra) ==
    LET span == negated_bounded_span(works, start, length)
    IN  BoolOr(rule, span.lits \cup extra, span.nots)

\* add_soft_sequence_constraint: the clauses added to the model, and the penalty
\* literals returned with their coefficients (cost_literals, cost_coefficients)
add_soft_sequence_constraint(works, hard_min, soft_min, min_cost, soft_max, hard_max, max_cost, prefix) ==
    LET starts(length) == Range0(Len(works) - length + 1)
        under == IF min_cost > 0
                 THEN {<<start, length>> \in Range0(Len(works) + 1) \X RangeAB(hard_min, soft_min)
                            : start \in starts(length)}
                 ELSE {}
        over ==  IF max_cost > 0
                 THEN {<<start, length>> \in Range0(Len(works) + 1) \X RangeAB(soft_max + 1, hard_max + 1)
                            : start \in starts(length)}
                 ELSE {}
        under_lit(sl) == <<prefix, "under_span", sl[1], sl[2]>>
        over_lit(sl) == <<prefix, "over_span", sl[1], sl[2]>>
    IN  [clauses |->
            \* "Forbid sequences that are too short."
            {SpanClause("too_short", works, start, length, {})
                : <<start, length>> \in
                    {sl \in Range0(Len(works) + 1) \X RangeAB(1, hard_min)
                        : sl[1] \in starts(sl[2])}}
            \* "Penalize sequences that are below the soft limit."
            \cup {SpanClause("under_span", works, sl[1], sl[2], {under_lit(sl)}) : sl \in under}
            \* "Penalize sequences that are above the soft limit."
            \cup {SpanClause("over_span", works, sl[1], sl[2], {over_lit(sl)}) : sl \in over}
            \* "Just forbid any sequence of true variables with length hard_max + 1"
            \cup {BoolOr("too_long", {}, {works[i + 1] : i \in RangeAB(start, start + hard_max + 1)})
                    : start \in Range0(Len(works) - hard_max)},
         costs |->
            {[rule |-> "under_span", var |-> under_lit(sl),
              coef |-> min_cost * (soft_min - sl[2])] : sl \in under}
            \cup {[rule |-> "over_span", var |-> over_lit(sl),
                   coef |-> max_cost * (sl[2] - soft_max)] : sl \in over}]

\* add_soft_sum_constraint: the constraints added to the model (sum_var, and
\* delta and excess on either side), and the penalty variables returned
add_soft_sum_constraint(works, hard_min, soft_min, min_cost, soft_max, hard_max, max_cost, prefix) ==
    LET vs == {works[i] : i \in 1 .. Len(works)}
        plus == Ones(vs)
        minus == {<<v, 0 - 1>> : v \in vs}
        under == soft_min > hard_min /\ min_cost > 0
        over == soft_max < hard_max /\ max_cost > 0
    IN  [clauses |->
            \* sum_var = model.NewIntVar(hard_min, hard_max, ''); sum_var == sum(works)
            {IntVarEq("sum_var", plus, 0, hard_min, hard_max)}
            \* delta = NewIntVar(-len(works), len(works)) == soft_min - sum_var;
            \* excess = NewIntVar(0, 7) == max(delta, 0)
            \cup (IF under
                  THEN {IntVarEq("under_delta", minus, soft_min, 0 - Len(works), Len(works)),
                        MaxEq("under_sum", minus, soft_min, 0, 7)}
                  ELSE {})
            \* delta = NewIntVar(-7, 7) == sum_var - soft_max;
            \* excess = NewIntVar(0, 7) == max(delta, 0)
            \cup (IF over
                  THEN {IntVarEq("over_delta", plus, 0 - soft_max, 0 - 7, 7),
                        MaxEq("over_sum", plus, 0 - soft_max, 0, 7)}
                  ELSE {}),
         costs |->
            (IF under THEN {[rule |-> prefix, var |-> "under_sum", coef |-> min_cost]} ELSE {})
            \cup (IF over THEN {[rule |-> prefix, var |-> "over_sum", coef |-> max_cost]} ELSE {})]

----------------------------------------------------------------------------
(* Names derived from the request, as solve_shift_scheduling derives them. *)

num_employees(dt) == dt.num_employees

\* ansatte_dummy = ansatte + ['?']
num_employees_dummy(dt) == dt.num_employees + 1

num_shifts(dt) == dt.num_shifts

num_days(dt) == dt.period_length

funktioner_liste(dt) == Range0(dt.num_shifts)

funktioner_no_overlap(dt) ==
    {shift \in funktioner_liste(dt) : shift \notin dt.allow_overlap}

funktioner_no_combination(dt) ==
    {shift \in funktioner_liste(dt) : shift \notin dt.allow_combination}

\* the cube: work[e, s, d] for e in range(num_employees_dummy), s, d
Cube(dt) ==
    Range0(num_employees_dummy(dt)) \X Range0(num_shifts(dt)) \X Range0(num_days(dt))

\* all shifts of employee e on day d
DayVars(dt, e, d) == {<<e, s, d>> : s \in Range0(num_shifts(dt))}

\* int(37*normtid / ansat_arbejdstid[e][1])
max_workhour(dt, e) == (37 * dt.normtid) \div dt.ansat_arbejdstid[e]

\* work[e, s, d] * int(funktioner_varighed[str(s)]) for s in 1.., d in offset..
HourTerms(dt, e) ==
    {<<(<<e, s, d>>), dt.funktioner_varighed[s]>> :
        s \in RangeAB(1, num_shifts(dt)), d \in RangeAB(dt.offset, num_days(dt))}

----------------------------------------------------------------------------
(* The hard rules, one operator per block of solve_shift_scheduling.       *)

\* variant: up to two shifts that are not allowed-to-combine may share a day
CardinalityRule_TwoNonCombinable(dt) ==
    UNION {
        { Lin("max_shifts_day", "le", Ones(DayVars(dt, e, d)), 2, {}),
          Lin("min_shifts_day", "ge", Ones(DayVars(dt, e, d)), 1, {}),
          Lin("no_combination", "le",
              Ones({<<e, s, d>> : s \in funktioner_no_combination(dt)}), 2, {}) }
        : e \in Range0(num_employees(dt)), d \in Range0(num_days(dt)) }

\* variant: the off shift is left out of the shifts that are not allowed-to-combine
CardinalityRule_NonZeroOnly(dt) ==
    UNION {
        { Lin("max_shifts_day", "le", Ones(DayVars(dt, e, d)), 2, {}),
          Lin("min_shifts_day", "ge", Ones(DayVars(dt, e, d)), 1, {}),
          Lin("no_combination", "le",
              Ones({<<e, s, d>> : s \in funktioner_no_combination(dt) \ {0}}), 1, {}) }
        : e \in Range0(num_employees(dt)), d \in Range0(num_days(dt)) }

\* "Max shift per e per day": between 1 and 2 shifts, at most one non-combinable
CardinalityRule(dt) ==
    UNION {
        { Lin("max_shifts_day", "le", Ones(DayVars(dt, e, d)), 2, {}),
          Lin("min_shifts_day", "ge", Ones(DayVars(dt, e, d)), 1, {}),
          Lin("no_combination", "le",
              Ones({<<e, s, d>> : s \in funktioner_no_combination(dt)}), 1, {}) }
        : e \in Range0(num_employees(dt)), d \in Range0(num_days(dt)) }

\* the shifts whose duration is under 6 hours
ShortShifts(dt) ==
    {s \in RangeAB(1, num_shifts(dt)) : dt.funktioner_tider[s][3] < 6}

\* variant: without the clause that keeps a short shift apart from off
ShortShiftRule_CombinedOnly(dt) ==
    { Lin("short_combined", "gt", Ones(DayVars(dt, e, d)), 1, {<<e, s, d>>})
        : e \in Range0(num_employees(dt)), d \in Range0(num_days(dt)),
          s \in ShortShifts(dt) }

\* a short shift is combined with another shift, and that shift is not off
ShortShiftRule(dt) ==
    UNION {
        { Lin("short_combined", "gt", Ones(DayVars(dt, e, d)), 1, {<<e, s, d>>}),
          BoolOr("short_not_off", {}, {<<e, s, d>>, <<e, 0, d>>}) }
        : e \in Range0(num_employees(dt)), d \in Range0(num_days(dt)),
          s \in ShortShifts(dt) }

\* "dummy": the dummy has at least one shift every day; num_dummy_v counts its work
DummyRule(dt) ==
    { Lin("dummy_min", "ge", Ones(DayVars(dt, num_employees_dummy(dt) - 1, d)), 1, {})
        : d \in Range0(num_days(dt)) }
    \cup
    { IntVarEq("num_dummies",
               Ones({<<num_employees_dummy(dt) - 1, s, d>> :
                        s \in RangeAB(1, num_shifts(dt)),
                        d \in RangeAB(dt.offset, num_days(dt))}),
               0, 0, num_days(dt) * num_shifts(dt)) }

\* variant: the pairs are drawn from the overlap-allowed shifts
OverlapPairs_AllowedOnly(dt) ==
    {p \in dt.allow_overlap \X dt.allow_overlap :
        /\ p[1] < p[2]
        /\ test_overlap(dt.funktioner_tider[p[1]][1], dt.funktioner_tider[p[1]][2],
                        dt.funktioner_tider[p[2]][1], dt.funktioner_tider[p[2]][2])}

\* the pairs of combinations(funktioner_no_overlap, 2) whose windows overlap
OverlapPairs(dt) ==
    {p \in funktioner_no_overlap(dt) \X funktioner_no_overlap(dt) :
        /\ p[1] < p[2]
        /\ test_overlap(dt.funktioner_tider[p[1]][1], dt.funktioner_tider[p[1]][2],
                        dt.funktioner_tider[p[2]][1], dt.funktioner_tider[p[2]][2])}

\* two shifts of an employee on one day must not overlap
OverlapRule(dt) ==
    { BoolOr("no_overlap", {}, {<<e, p[1], d>>, <<e, p[2], d>>})
        : p \in OverlapPairs(dt), d \in Range0(num_days(dt)),
          e \in Range0(num_employees(dt)) }

\* an overlap-allowed shift is not combined with off
OverlapOffRule(dt) ==
    { BoolOr("overlap_not_off", {}, {<<e, s, d>>, <<e, 0, d>>})
        : s \in dt.allow_overlap, d \in Range0(num_days(dt)),
          e \in Range0(num_employees(dt)) }

\* variant: "if d>offset" (the fixed assignment on the offset day is dropped)
FixedRule_AfterOffset(dt) ==
    { Lin("fixed", "eq", Ones({<<f[1], f[2], f[3]>>}), 1, {})
        : f \in {g \in dt.fixed_assignments : g[3] > dt.offset} }

\* "Fixed assignments": if d > (offset-1): model.Add(work[e, s, d] == 1)
FixedRule(dt) ==
    { Lin("fixed", "eq", Ones({<<f[1], f[2], f[3]>>}), 1, {})
        : f \in {g \in dt.fixed_assignments : g[3] > (dt.offset - 1)} }

\* "Employee requests" with w == 0
RequestRule(dt) ==
    { Lin("request", "eq", Ones({<<r[1], r[2], r[3]>>}), 1, {})
        : r \in {q \in dt.requests : q[3] > (dt.offset - 1) /\ q[4] = 0} }

\* "Employee requests" with w != 0: obj_bool_vars / obj_bool_coeffs
RequestObjective(dt) ==
    { [rule |-> "request", var |-> <<r[1], r[2], r[3]>>, coef |-> r[4]]
        : r \in {q \in dt.requests : q[3] > (dt.offset - 1) /\ q[4] # 0} }

\* needed = cover_demands[d][s-1]
needed(dt, d, s) == dt.cover_demands[d][s - 1]

\* variant: on the last day the demand is an upper bound only
CoverageRule_LastDayAtMost(dt) ==
    { Lin("coverage", IF d = num_days(dt) - 1 THEN "le" ELSE "eq",
          Ones({<<e, s, d>> : e \in Range0(num_employees_dummy(dt))}),
          needed(dt, d, s), {})
        : d \in Range0(num_days(dt)), s \in RangeAB(1, num_shifts(dt)) }

\* "workers needed = workers assigned"
CoverageRule(dt) ==
    { Lin("coverage", "eq",
          Ones({<<e, s, d>> : e \in Range0(num_employees_dummy(dt))}),
          needed(dt, d, s), {})
        : d \in Range0(num_days(dt)), s \in RangeAB(1, num_shifts(dt)) }

\* variant: range(num_days - 2) (the night before the last day is not followed up)
RestRule_SkipLast(dt) ==
    { Lin("rest_after_night", "eq", Ones({<<e, 0, d + 1>>}), 1, {<<e, night_shift, d>>})
        : night_shift \in dt.night_shifts, e \in Range0(num_employees(dt)),
          d \in Range0(num_days(dt) - 2) }

\* "rest after nightshift"
RestRule(dt) ==
    { Lin("rest_after_night", "eq", Ones({<<e, 0, d + 1>>}), 1, {<<e, night_shift, d>>})
        : night_shift \in dt.night_shifts, e \in Range0(num_employees(dt)),
          d \in Range0(num_days(dt) - 1) }

\* the first days of the 7-day windows: range(offset, num_days-7)
WindowStarts(dt) == RangeAB(dt.offset, num_days(dt) - 7)

\* "max 1 nightshift indenfor 7 dage"
WindowRule(dt) ==
    { Lin("night_window", "le",
          Ones({<<e, s, x>> : s \in dt.night_shifts, x \in RangeAB(d, d + 7)}), 1, {})
        : e \in Range0(num_employees(dt)), d \in WindowStarts(dt) }

\* "max shifts": shifts_worked and excess_shifts of employee e, the pair
\* p = (s, max) of funktioner_max_uge and week w, over range(w*7, w*7+6)
WeeklyCapRule(dt) ==
    UNION {
        { IntVarEq("shifts_worked",
                   Ones({<<e, p[1], x>> : x \in RangeAB(w * 7, w * 7 + 6)}), 0, 0, 7),
          IntVarEq("excess_shifts",
                   {<<(<<e, p[1], x>>), 0 - 1>> : x \in RangeAB(w * 7, w * 7 + 6)},
                   p[2], 0 - 7, 7) }
        : e \in Range0(num_employees(dt)), p \in dt.funktioner_max_uge,
          w \in Range0(dt.number_of_weeks) }

\* obj_int_vars.append(excess_shifts); obj_int_coeffs.append(over_penalty_shifts)
WeeklyCapObjective(dt) ==
    { [rule |-> "excess_shifts", var |-> <<"excess_shifts", e, p, w>>, coef |-> 4]
        : e \in Range0(num_employees(dt)), p \in dt.funktioner_max_uge,
          w \in Range0(dt.number_of_weeks) }

\* "fordel timer, max timer": hours_worked and excess_workhours
HoursRule(dt) ==
    UNION {
        { IntVarEq("hours_worked", HourTerms(dt, e), 0, 0, max_workhour(dt, e)),
          IntVarEq("excess_workhours", {<<t[1], 0 - t[2]>> : t \in HourTerms(dt, e)},
                   max_workhour(dt, e), 0, num_days(dt) * 24) }
        : e \in Range0(num_employees(dt)) }

\* penalty = -10; obj_int_vars.append(excess_workhours); obj_int_coeffs.append(penalty)
HoursObjective(dt) ==
    { [rule |-> "excess_workhours", var |-> <<"excess_workhours", e>>, coef |-> 0 - 10]
        : e \in Range0(num_employees(dt)) }

\* weekenddays_worked_int[e, w]: Saturday and Sunday shifts, Friday night shifts
WeekendTerms(dt, e, w) ==
    Ones({<<e, s, w * 7 + 5>> : s \in RangeAB(1, num_shifts(dt))}
         \cup {<<e, s, w * 7 + 6>> : s \in RangeAB(1, num_shifts(dt))}
         \cup {<<e, friday, w * 7 + 4>> : friday \in dt.night_shifts})

\* variant: weekends_in_month[e] = NewIntVar(0, 3, ..)
WeekendRule_UpToFour(dt) ==
    UNION {
        { IntVarEq("weekenddays_worked_int", WeekendTerms(dt, e, w), 0,
                   0, dt.number_of_weeks * 3) : w \in Range0(dt.number_of_weeks) }
        \cup
        { CountEq("weekends_in_month",
                  {WeekendTerms(dt, e, w) : w \in Range0(dt.number_of_weeks)},
                  0 - 1, 0, 3),
          CountEq("total_weekends",
                  {WeekendTerms(dt, e, w) : w \in Range0(dt.number_of_weeks)},
                  dt.weekends_worked_8weeks[e], 0, dt.number_of_weeks + 8) }
        : e \in Range0(num_employees(dt)) }

\* "equalize number of weekends worked": the weekend variables of every employee.
\* weekenddays_worked[e, w] is 1 exactly when weekenddays_worked_int[e, w] > 0
\* (through b), so a sum of weekenddays_worked[e, w] counts the weeks whose
\* terms have a positive sum.  The clauses of trans_avoid_2weekends hold a
\* fresh literal each and rule out no assignment of the cube; they are left out.
WeekendRule(dt) ==
    UNION {
        { IntVarEq("weekenddays_worked_int", WeekendTerms(dt, e, w), 0,
                   0, dt.number_of_weeks * 3) : w \in Range0(dt.number_of_weeks) }
        \cup
        { CountEq("weekends_in_month",
                  {WeekendTerms(dt, e, w) : w \in Range0(dt.number_of_weeks)},
                  0 - 1, 0, 2),
          CountEq("total_weekends",
                  {WeekendTerms(dt, e, w) : w \in Range0(dt.number_of_weeks)},
                  dt.weekends_worked_8weeks[e], 0, dt.number_of_weeks + 8) }
        : e \in Range0(num_employees(dt)) }

\* "max 2 weekends per month": obj_int_vars.append(weekends_in_month[e]), penalty 2
WeekendObjective(dt) ==
    { [rule |-> "weekends_in_month", var |-> <<"weekends_in_month", e>>, coef |-> 2]
        : e \in Range0(num_employees(dt)) }

\* sum_of_shifts[e], sum_of_shifts_night[e] and sum_of_equalfunctions[e]
NightSumRule(dt) ==
    UNION {
        { IntVarEq("sum_of_shifts",
                   Ones({<<e, s, d>> : s \in dt.night_shifts,
                                       d \in RangeAB(dt.offset, num_days(dt))}),
                   0, 0, num_days(dt)),
          IntVarEq("sum_of_equalfunctions",
                   Ones({<<e, s, d>> : s \in dt.equalfunctions,
                                       d \in RangeAB(dt.offset, num_days(dt))}),
                   0, 0, num_days(dt)) }
        : e \in Range0(num_employees(dt)) }

\* sum(work[e, s, d] for s in night_shifts for d in range(offset, num_days))
NightTerms(dt, e) ==
    Ones({<<e, s, d>> : s \in dt.night_shifts, d \in RangeAB(dt.offset, num_days(dt))})

\* the value of sum_of_shifts[e] under the assignment w
sum_of_shifts(dt, w, e) == SumTerms(NightTerms(dt, e), w)

\* the value of sum_of_shifts_night[e] under the assignment w
sum_of_shifts_night(dt, w, e) == SumTerms(NightTerms(dt, e), w)

\* AddMinEquality(min_fair_shift_night, [sum_of_shifts_night[e] for e in range(num_employees)])
min_fair_shift_night(dt, w) ==
    SetMin({sum_of_shifts_night(dt, w, e) : e \in Range0(num_employees(dt))})

\* variant: the maximum is taken over sum_of_equalfunctions
max_fair_shift_night_Equalfunctions(dt, w) ==
    SetMax({SumTerms(Ones({<<e, s, d>> : s \in dt.equalfunctions,
                                         d \in RangeAB(dt.offset, num_days(dt))}), w)
                : e \in Range0(num_employees(dt))})

\* AddMaxEquality(max_fair_shift_night, [sum_of_shifts[e] for e in range(num_employees)])
max_fair_shift_night(dt, w) ==
    SetMax({sum_of_shifts(dt, w, e) : e \in Range0(num_employees(dt))})

\* model.Add(nightshift_diff == max_fair_shift_night - min_fair_shift_night)
nightshift_diff(dt, w) == max_fair_shift_night(dt, w) - min_fair_shift_night(dt, w)

\* min_fair_shift_night, max_fair_shift_night and nightshift_diff lie in [0, num_days]
NightSpreadRule(dt) ==
    { IntVarEq("sum_of_shifts_night", NightTerms(dt, e), 0, 0, num_days(dt))
        : e \in Range0(num_employees(dt)) }

\* obj_int_vars.append(nightshift_diff); obj_int_coeffs.append(4): once per night shift
NightSpreadObjective(dt) ==
    { [rule |-> "nightshift_diff", var |-> <<"nightshift_diff", s>>, coef |-> 4]
        : s \in dt.night_shifts }

\* "limit workhours": month_end_hours[e]
MonthEndHoursRule(dt) ==
    { IntVarEq("month_end_hours", HourTerms(dt, e), 0,
               (dt.normtid * dt.ansat_arbejdstid[e]) \div 3700,
               (12 * dt.normtid * dt.ansat_arbejdstid[e]) \div 370)
        : e \in Range0(num_employees(dt)) }

\* variant: range(offset + 1, num_days) (the offset day is not covered)
SkillRule_AfterOffset(dt) ==
    UNION {
        { Lin("skill", "eq", Ones({<<k[1], k[2], d>>}), 0, {})
            : d \in {y \in RangeAB(dt.offset + 1, num_days(dt)) :
                        <<k[1], k[2], y>> \notin dt.fixed_assignments} }
        : k \in {x \in dt.skills : x[3] = 0} }

\* "skills": k == 0 forbids the shift on the days from offset on, fixed ones excepted
SkillRule(dt) ==
    UNION {
        { Lin("skill", "eq", Ones({<<k[1], k[2], d>>}), 0, {})
            : d \in {y \in RangeAB(dt.offset, num_days(dt)) :
                        <<k[1], k[2], y>> \notin dt.fixed_assignments} }
        : k \in {x \in dt.skills : x[3] = 0} }

\* ansatte.index(name)
ansatte_index(dt, name) ==
    CHOOSE i \in Range0(num_employees(dt)) : dt.ansatte[i + 1] = name

\* "equalfunctionsansatte": for the group g = (s, ansatte_in_shift), a new
\* sum_of_shifts variable for every member, the count of shift s from the offset on
EqualizationRule(dt) ==
    UNION {
        { IntVarEq("sum_of_shifts_group",
                   Ones({<<ansatte_index(dt, g[2][i]), g[1], d>>
                            : d \in RangeAB(dt.offset, num_days(dt))}),
                   0, 0, num_days(dt))
            : i \in 1 .. Len(g[2]) }
        : g \in dt.equalfunctionsansatte }

\* equalfunctions_diff of the group g: max_fair_equalfunctions - min_fair_equalfunctions,
\* both taken over sum_of_equalfunctions[ansatte.index(e)] for e in ansatte_in_shift
equalfunctions_diff(dt, w, g) ==
    LET sums == { SumTerms(Ones({<<ansatte_index(dt, g[2][i]), s, d>>
                                    : s \in dt.equalfunctions,
                                      d \in RangeAB(dt.offset, num_days(dt))}), w)
                    : i \in 1 .. Len(g[2]) }
    IN  SetMax(sums) - SetMin(sums)

\* obj_int_vars.append(equalfunctions_diff); obj_int_coeffs.append(12)
EqualizationObjective(dt) ==
    { [rule |-> "equalfunctions_diff", var |-> <<"equalfunctions_diff", g>>, coef |-> 12]
        : g \in dt.equalfunctionsansatte }

\* the instances of the transition tuples (first_shift, first day, second
\* shift, second day, cost): desired_day_transistions per employee and week,
\* desired_shift_transitions per employee and day d in range(num_days - next_day)
Transitions(dt) ==
    { [rule |-> "desired_day_transition", first |-> <<e, t[1], 7 * w + t[2]>>,
       second |-> <<e, t[3], 7 * w + t[4]>>, cost |-> t[5]]
        : t \in dt.desired_day_transistions, e \in Range0(num_employees(dt)),
          w \in Range0(dt.number_of_weeks) }
    \cup
    UNION {
        { [rule |-> "desired_shift_transition", first |-> <<e, t[1], d + t[2]>>,
           second |-> <<e, t[3], d + t[4]>>, cost |-> t[5]]
            : e \in Range0(num_employees(dt)), d \in Range0(num_days(dt) - t[4]) }
        : t \in dt.desired_shift_transitions }

\* cost == 0: the second shift is enforced if the first is worked; otherwise
\* AddBoolOr([first.Not(), second, var]) with a new Boolean variable var
TransitionRule(dt) ==
    { IF i.cost = 0
      THEN Lin(i.rule, "eq", Ones({i.second}), 1, {i.first})
      ELSE BoolOr(i.rule, {i.second, <<i.rule, i>>}, {i.first})
        : i \in Transitions(dt) }

\* obj_bool_vars.append(var); obj_bool_coeffs.append(-1*cost)
TransitionObjective(dt) ==
    { [rule |-> i.rule, var |-> <<i.rule, i>>, coef |-> 0 - i.cost]
        : i \in {j \in Transitions(dt) : j.cost # 0} }

\* solver.Value(v) of the integer variable v under the assignment w of the
\* cube, as the equality that defines v gives it
IntVarValue(dt, w, v) ==
    CASE v[1] = "nightshift_diff" -> nightshift_diff(dt, w)
      [] v[1] = "excess_shifts" ->
            v[3][2] - SumTerms(Ones({<<v[2], v[3][1], x>>
                                        : x \in RangeAB(v[4] * 7, v[4] * 7 + 6)}), w)
      [] v[1] = "excess_workhours" ->
            max_workhour(dt, v[2]) - SumTerms(HourTerms(dt, v[2]), w)
      [] v[1] = "weekenddays_worked" ->
            IF SumTerms(WeekendTerms(dt, v[2][1], v[2][2]), w) > 0 THEN 1 ELSE 0
      [] v[1] = "weekends_in_month" ->
            Cardinality({wk \in Range0(dt.number_of_weeks) :
                            SumTerms(WeekendTerms(dt, v[2], wk), w) > 0}) - 1
      [] v[1] = "equalfunctions_diff" -> equalfunctions_diff(dt, w, v[2])

----------------------------------------------------------------------------
(* The requests explored: data.json as solve_shift_scheduling reads it.    *)

\* Shift types: 0 is off ("Sove"), 1 a day shift, 2 a night shift.
\* funktioner_tider[s] = <<start, end, duration in hours>>.
Tider(night_start, day_hours) ==
    [s \in Range0(3) |->
        CASE s = 0 -> <<(<<0, 0>>), (<<0, 0>>), 24>>
          [] s = 1 -> <<(<<8, 0>>), (<<16, 0>>), day_hours>>
          [] s = 2 -> <<night_start, (<<8, 0>>), 16>>]

\* Shift catalogues: which shifts may be combined, which may overlap, whether
\* the night shift starts before the day shift ends, and how long the day
\* shift is.
Catalogues ==
    { [allow_combination |-> {}, allow_overlap |-> {}, night_start |-> <<16, 0>>,
       day_hours |-> 8],
      [allow_combination |-> {1}, allow_overlap |-> {}, night_start |-> <<16, 0>>,
       day_hours |-> 8],
      [allow_combination |-> {1}, allow_overlap |-> {}, night_start |-> <<15, 30>>,
       day_hours |-> 8],
      [allow_combination |-> {1}, allow_overlap |-> {1}, night_start |-> <<15, 30>>,
       day_hours |-> 8] }

\* Skill, fixed-assignment and request tuples: skills are (e, s, flag), fixed
\* assignments (e, s, d), requests (e, s, d, weight).
Tuples ==
    { [skills |-> {}, fixed_assignments |-> {}, requests |-> {}],
      [skills |-> {<<0, 2, 0>>}, fixed_assignments |-> {}, requests |-> {}],
      [skills |-> {<<0, 2, 0>>}, fixed_assignments |-> {<<0, 2, NumDays - 2>>},
       requests |-> {}],
      [skills |-> {}, fixed_assignments |-> {<<0, 2, NumDays - 2>>},
       requests |-> {<<0, 1, NumDays - BusyDays, 0>>}],
      [skills |-> {}, fixed_assignments |-> {},
       requests |-> {<<0, 1, NumDays - BusyDays, 3>>}] }

\* ansatte: the names of the real employees
Names == <<"Ane", "Bo", "Cai", "Dan">>

\* The cells (day, list index of the shift) of the last days, among which the
\* units of demand are placed.
BusyCells == RangeAB(NumDays - BusyDays, NumDays) \X Range0(2)

\* the cell of the units that are not placed: the first shift of the first day
NoCell == <<0, 0>>

\* cover_demands[d][s-1], from the cells that the units of demand fall into
DemandOf(units) ==
    [d \in Range0(NumDays) |->
        [i \in Range0(2) |-> Cardinality({u \in DOMAIN units : units[u] = <<d, i>>})]]

RequestSize(units, cat, tup) ==
    Cardinality({u \in DOMAIN units : units[u] # NoCell})
    + (IF cat.allow_combination = {} THEN 0 ELSE 1)
    + (IF tup.skills \cup tup.fixed_assignments \cup tup.requests = {} THEN 0 ELSE 1)

\* the preference fields of data.json when the request states none
NoPreferences ==
    [ funktioner_max_uge |-> {}, desired_day_transistions |-> {},
      desired_shift_transitions |-> {}, equalfunctions |-> {},
      equalfunctionsansatte |-> {} ]

\* data.json for ne real employees, offset off, demand units, a catalogue and
\* tuples (tuples that state no preferences have none)
Request(ne, off, units, cat, tup) ==
    [ num_employees |-> ne,
      num_shifts |-> 3,
      period_length |-> NumDays,
      number_of_weeks |-> NumDays \div 7,
      offset |-> off,
      cover_demands |-> DemandOf(units),
      night_shifts |-> {2},
      allow_overlap |-> cat.allow_overlap,
      allow_combination |-> cat.allow_combination,
      funktioner_tider |-> Tider(cat.night_start, cat.day_hours),
      funktioner_varighed |-> [s \in Range0(3) |-> IF s = 2 THEN 16 ELSE cat.day_hours],
      ansatte |-> SubSeq(Names, 1, ne),
      shifts |-> <<"Sove", "Dag", "Nat">>,
      dates |-> [d \in 1 .. NumDays |-> d - 1],
      normtid |-> 160,
      ansat_arbejdstid |-> [e \in Range0(ne) |-> 37],
      weekends_worked_8weeks |-> [e \in Range0(ne) |-> 2],
      equalfunctions |-> (tup @@ NoPreferences).equalfunctions,
      equalfunctionsansatte |-> (tup @@ NoPreferences).equalfunctionsansatte,
      funktioner_max_uge |-> (tup @@ NoPreferences).funktioner_max_uge,
      desired_day_transistions |-> (tup @@ NoPreferences).desired_day_transistions,
      desired_shift_transitions |-> (tup @@ NoPreferences).desired_shift_transitions,
      fixed_assignments |-> tup.fixed_assignments,
      requests |-> tup.requests,
      skills |-> tup.skills ]

Requests_ ==
    { Request(ne, off, p[1], p[2], p[3])
      : ne \in 1 .. MaxEmployees,
        off \in {0, NumDays - 2},
        p \in { q \in [1 .. MaxRequestSize -> BusyCells \cup {NoCell}]
                        \X Catalogues \X Tuples :
                    RequestSize(q[1], q[2], q[3]) <= MaxRequestSize } }

\* the files the handler and the script share
FileNames == {"data.json", "brain.json", "OutFile.txt"}

\* the JSON object {}, which the /json handler writes to brain.json before it
\* starts the script (app.py:61-63); also a file with nothing in it
EmptyObject == [x \in {} |-> {}]

----------------------------------------------------------------------------
(* The script, step by step.                                               *)

\* the script starts on one of the requests of R, which data.json holds
StartOn(R) ==
    /\ data \in R
    /\ pc = "loaded"
    /\ constraints = {}
    /\ objective = {}
    /\ pos = 0
    /\ work = {}
    /\ status = "NONE"
    /\ values = <<>>
    /\ files = [f \in FileNames |->
                    IF f = "data.json" THEN data ELSE EmptyObject]
    /\ req = <<>>

Init == StartOn(Requests_)

\* The solver assigns the cube day by day, and within a day employee by employee.
NumCells(dt) == num_days(dt) * num_employees_dummy(dt)

CellDay(dt, k) == k \div num_employees_dummy(dt)

CellEmployee(dt, k) == k % num_employees_dummy(dt)

CellOf(dt, v) == v[3] * num_employees_dummy(dt) + v[1]

\* the variables of the cube among vs: the triples (e, s, d); a variable made
\* by NewBoolVar for a clause is not one of them
CubeVars(vs) == {v \in vs : Len(v) = 3}

\* the cells whose variables constraint c reads; the last of them decides it
CellsOf(dt, c) == {CellOf(dt, v) : v \in CubeVars(VarsOf(c))}

\* a constraint as the model keeps it: with the cells of the cube it reads.  A
\* clause that holds a variable of its own is decided after the whole cube.
Indexed(dt, c) ==
    c @@ [cells |-> CellsOf(dt, c),
          last |-> IF CubeVars(VarsOf(c)) = VarsOf(c)
                   THEN SetMax(CellsOf(dt, c)) ELSE NumCells(dt)]

\* every hard rule of solve_shift_scheduling
HardRules(dt) ==
    CardinalityRule(dt) \cup ShortShiftRule(dt) \cup DummyRule(dt)
    \cup OverlapRule(dt) \cup OverlapOffRule(dt) \cup FixedRule(dt)
    \cup RequestRule(dt) \cup CoverageRule(dt) \cup RestRule(dt)
    \cup WindowRule(dt) \cup HoursRule(dt) \cup WeekendRule(dt)
    \cup NightSumRule(dt) \cup NightSpreadRule(dt) \cup MonthEndHoursRule(dt)
    \cup SkillRule(dt) \cup WeeklyCapRule(dt) \cup EqualizationRule(dt)
    \cup TransitionRule(dt)

\* every objective term of solve_shift_scheduling kept by the model
ObjectiveTerms(dt) ==
    RequestObjective(dt) \cup NightSpreadObjective(dt) \cup WeeklyCapObjective(dt)
    \cup HoursObjective(dt) \cup WeekendObjective(dt) \cup EqualizationObjective(dt)
    \cup TransitionObjective(dt)

\* the variables work[e, s, d] the assembly looks up
Accessed(dt) ==
    CubeVars(UNION {VarsOf(c) : c \in HardRules(dt)})
    \cup {t.var : t \in RequestObjective(dt)}

\* brain2.py:416-1025: every rule is added to the model, model.Minimize, and
\* solver.SolveWithSolutionCallback(model, ..) is called
\* The model is assembled.  work is a dict keyed by (e, s, d): looking up a
\* key outside the cube raises KeyError and the script ends there.
BuildModel ==
    /\ pc = "loaded"
    /\ IF Accessed(data) \subseteq Cube(data)
       THEN /\ constraints' = {Indexed(data, c) : c \in HardRules(data)}
            /\ objective' = ObjectiveTerms(data)
            /\ pc' = "solving"
       ELSE /\ pc' = "crashed"
            /\ UNCHANGED <<constraints, objective>>
    /\ UNCHANGED <<data, pos, work, status, values, files, req>>

\* an unconditional upper bound on a sum of variables
IsUpperBound(c) == c.kind \in {"le", "eq"} /\ c.enf = {}

\* the true variables of w already exceed the upper bound c
Refuted(c, w) == SumTerms(c.terms, w) > c.rhs

\* the ways to assign cell k on top of w that no constraint rules out
CellChoices(w, k) ==
    LET decided == {c \in constraints : c.last = k}
        open == {c \in constraints : c.last > k /\ k \in c.cells /\ IsUpperBound(c)}
    IN  { w2 \in { w \cup {<<CellEmployee(data, k), s, CellDay(data, k)>> : s \in cell}
                    : cell \in SUBSET Range0(num_shifts(data)) } :
            /\ \A c \in decided : Holds(c, w2)
            /\ \A c \in open : ~Refuted(c, w2) }

RECURSIVE Extend(_, _, _)
\* the ways to assign the cells k .. kEnd-1 on top of w
Extend(w, k, kEnd) ==
    IF k = kEnd THEN {w}
    ELSE UNION { Extend(w2, k + 1, kEnd) : w2 \in CellChoices(w, k) }

\* The solver fixes the variables of one more day, keeping every decided constraint true.
AssignDay ==
    /\ pc = "solving"
    /\ pos < num_days(data)
    /\ work' \in Extend(work, pos * num_employees_dummy(data),
                        (pos + 1) * num_employees_dummy(data))
    /\ pos' = pos + 1
    /\ UNCHANGED <<data, pc, constraints, objective, status, values, files, req>>

\* The solver returns with every variable assigned: status FEASIBLE (or OPTIMAL).
\* The integer variables of the objective and the weekend indicators have the
\* values their equalities give; the Boolean variables of the transition
\* clauses have any values under which the clauses hold.
Solved ==
    /\ pc = "solving"
    /\ pos = num_days(data)
    /\ \E lits \in {{t.var : t \in TransitionObjective(data)}} :
       \E on \in SUBSET lits :
          /\ \A c \in {x \in constraints : x.last = NumCells(data)} : Holds(c, work \cup on)
          /\ values' =
                [v \in lits |-> IF v \in on THEN 1 ELSE 0]
                @@ [v \in ({t.var : t \in {u \in objective : Len(u.var) # 3}} \ lits)
                          \cup {<<"weekenddays_worked", <<e, w>>>>
                                    : e \in Range0(num_employees(data)),
                                      w \in Range0(data.number_of_weeks)}
                        |-> IntVarValue(data, work, v)]
    /\ status' = "FEASIBLE"
    /\ pc' = "solved"
    /\ UNCHANGED <<data, constraints, objective, pos, work, files, req>>

RECURSIVE CanFinish(_, _)
\* some assignment of the cells from k on, on top of w, satisfies the model
CanFinish(w, k) ==
    \/ k = NumCells(data)
    \/ \E w2 \in CellChoices(w, k) : CanFinish(w2, k + 1)

\* The solver proves that no assignment satisfies the model: status INFEASIBLE.
Infeasible ==
    /\ pc = "solving"
    /\ pos = 0
    /\ ~CanFinish(work, 0)
    /\ status' = "INFEASIBLE"
    /\ pc' = "solved"
    /\ UNCHANGED <<data, constraints, objective, pos, work, values, files, req>>

\* max_time_in_seconds runs out before the solver has found anything: status UNKNOWN.
TimeOut ==
    /\ pc = "solving"
    /\ pos = 0
    /\ status' = "UNKNOWN"
    /\ pc' = "solved"
    /\ UNCHANGED <<data, constraints, objective, pos, work, values, files, req>>

\* employees_dummy: ansatte and the dummy '?'
employees_dummy(dt) == Append(dt.ansatte, "?")

\* the employees 0 .. n-1 in order
EmployeeList(n) == [i \in 1 .. n |-> i - 1]

\* variant: the loop runs over range(num_employees), the dummy is left out
JoinedNames_RealOnly(dt, w, s, d) ==
    LET es == SelectSeq(EmployeeList(num_employees(dt)), LAMBDA e : <<e, s, d>> \in w)
    IN  [i \in 1 .. Len(es) |-> employees_dummy(dt)[es[i] + 1]]

\* ansatte += employees_dummy[e] + " " for every e with work[e, s, d], then
\* rstrip(): the string, as the list of the names it holds between its spaces
JoinedNames(dt, w, s, d) ==
    LET es == SelectSeq(EmployeeList(num_employees_dummy(dt)), LAMBDA e : <<e, s, d>> \in w)
    IN  [i \in 1 .. Len(es) |-> employees_dummy(dt)[es[i] + 1]]

\* data[shifts[s]] = [{dates[d]: ansatte} for d]; a later shift of the same
\* name replaces the list of an earlier one
BrainJson(dt, w) ==
    [name \in {dt.shifts[i] : i \in 1 .. num_shifts(dt)} |->
        LET s == SetMax({i \in Range0(num_shifts(dt)) : dt.shifts[i + 1] = name})
        IN  [d \in 1 .. num_days(dt) |->
                [date |-> dt.dates[d], ansatte |-> JoinedNames(dt, w, s, d - 1)]]]

\* allskema: per day the "shift:employee" pairs of the shifts not named "Sove"
\* and, under fri, the employees of the shifts named "Sove"
AllSkema(dt, w) ==
    LET ne == num_employees_dummy(dt)
        cells == [i \in 1 .. (num_shifts(dt) * ne) |-> <<(i - 1) \div ne, (i - 1) % ne>>]
        named(c) == <<dt.shifts[c[1] + 1], employees_dummy(dt)[c[2] + 1]>>
    IN  [d \in 1 .. num_days(dt) |->
            LET on == SelectSeq(cells, LAMBDA c : <<c[2], c[1], d - 1>> \in w)
                wk == SelectSeq(on, LAMBDA c : dt.shifts[c[1] + 1] # "Sove")
                fr == SelectSeq(on, LAMBDA c : dt.shifts[c[1] + 1] = "Sove")
            IN  [day |-> d - 1, date |-> dt.dates[d],
                 skema |-> [i \in 1 .. Len(wk) |-> named(wk[i])],
                 fri |-> [i \in 1 .. Len(fr) |-> named(fr[i])[2]]]]

\* "Print solution": with status OPTIMAL or FEASIBLE the schedule is written to
\* brain.json and OutFile.txt; with any other status nothing is written.
PrintSolution ==
    /\ pc = "solved"
    /\ files' = IF status = "FEASIBLE"
                THEN [files EXCEPT !["brain.json"] = BrainJson(data, work),
                                   !["OutFile.txt"] = AllSkema(data, work)]
                ELSE files
    /\ pc' = "done"
    /\ UNCHANGED <<data, constraints, objective, pos, work, status, values, req>>

\* solve_shift_scheduling up to the return of a solver that finds a schedule
Next == BuildModel \/ AssignDay \/ Solved

Spec == Init /\ [][Next]_vars

----------------------------------------------------------------------------
(* A whole run of the script: every status of the solver, and the printing *)
(* of the solution.                                                        *)

\* the strict catalogue, and one whose day shift is a short shift (4 hours)
RunCatalogues ==
    { [allow_combination |-> {}, allow_overlap |-> {}, night_start |-> <<16, 0>>,
       day_hours |-> 8],
      [allow_combination |-> {1}, allow_overlap |-> {}, night_start |-> <<16, 0>>,
       day_hours |-> 4] }

RunTuples ==
    { [skills |-> {}, fixed_assignments |-> {}, requests |-> {}],
      \* tuples that name an employee the request does not have
      [skills |-> {<<MaxEmployees + 1, 1, 1>>},
       fixed_assignments |-> {<<MaxEmployees + 1, 1, NumDays - BusyDays>>},
       requests |-> {}],
      \* a zero-weight request for a shift the employee has no skill for
      [skills |-> {<<0, 1, 0>>}, fixed_assignments |-> {},
       requests |-> {<<0, 1, NumDays - 2, 0>>}],
      \* two fixed assignments of one employee on one day: off and the night shift
      [skills |-> {}, fixed_assignments |-> {<<0, 0, NumDays - 2>>, <<0, 2, NumDays - 2>>},
       requests |-> {}] }

\* as RequestSize, with tuples counting for two
RunSize(units, cat, tup) ==
    RequestSize(units, cat, tup)
    + (IF tup.skills \cup tup.fixed_assignments \cup tup.requests = {} THEN 0 ELSE 1)

RunRequests ==
    { Request(ne, off, p[1], p[2], p[3])
      : ne \in 1 .. MaxEmployees,
        off \in {0, NumDays - 2},
        p \in { q \in [1 .. MaxRequestSize -> BusyCells \cup {NoCell}]
                        \X RunCatalogues \X RunTuples :
                    RunSize(q[1], q[2], q[3]) <= MaxRequestSize } }

RunInit == StartOn(RunRequests)

RunNext == BuildModel \/ AssignDay \/ Solved \/ Infeasible \/ TimeOut \/ PrintSolution

SpecRun == RunInit /\ [][RunNext]_vars

----------------------------------------------------------------------------
(* Requests that state preferences: a weekly cap, transition tuples in the *)
(* soft and in the hard form, an equalization group.                       *)

\* one preference per request: the day shift at most once a week; the night
\* shift on Sunday after the day shift on Saturday, rewarded with 3 or
\* enforced; the night shift on the day after the day shift, from the last
\* three days on, rewarded with 3; the group of Ane and Bo on the day shift,
\* without and with the day shift among equalfunctions
PrefTuples ==
    { [skills |-> {}, fixed_assignments |-> {}, requests |-> {}] @@ p
        : p \in { [funktioner_max_uge |-> {<<1, 1>>}],
                  [desired_day_transistions |-> {<<1, 5, 2, 6, 3>>}],
                  [desired_day_transistions |-> {<<1, 5, 2, 6, 0>>}],
                  [desired_shift_transitions |-> {<<1, NumDays - 3, 2, NumDays - 2, 3>>}],
                  [equalfunctionsansatte |-> {<<1, <<"Ane", "Bo">> >>}],
                  [equalfunctionsansatte |-> {<<1, <<"Ane", "Bo">> >>},
                   equalfunctions |-> {1}] } }

\* requests of the strict catalogue with a preference, the preference
\* counting for one unit of demand; the members of a group are employees of
\* the request
PrefRequests ==
    { r \in { Request(ne, off, p[1], CHOOSE c \in Catalogues : c.allow_combination = {}, p[2])
              : ne \in 1 .. MaxEmployees,
                off \in {0, NumDays - 2},
                p \in { q \in [1 .. MaxRequestSize -> BusyCells \cup {NoCell}] \X PrefTuples :
                            Cardinality({u \in 1 .. MaxRequestSize : q[1][u] # NoCell})
                                < MaxRequestSize } } :
        \A g \in r.equalfunctionsansatte : Len(g[2]) <= r.num_employees }

PrefInit == StartOn(PrefRequests)

SpecPref == PrefInit /\ [][Next]_vars

----------------------------------------------------------------------------
(* Requests over a month: whole weeks, with demand on the weekends.        *)

\* number of weeks of the month's horizon
NumWeeks == 4

\* requests of the strict catalogue over NumWeeks weeks from the offset 0: a
\* day shift is demanded on some of the Saturdays, a night shift on the first
\* Friday or not
MonthRequests ==
    { [ Request(ne, 0, [u \in 1 .. MaxRequestSize |-> NoCell],
                CHOOSE c \in Catalogues : c.allow_combination = {},
                [skills |-> {}, fixed_assignments |-> {}, requests |-> {}])
        EXCEPT !.period_length = 7 * NumWeeks,
               !.number_of_weeks = NumWeeks,
               !.dates = [d \in 1 .. 7 * NumWeeks |-> d - 1],
               !.cover_demands =
                    [d \in Range0(7 * NumWeeks) |->
                        [i \in Range0(2) |-> IF <<d, i>> \in cells THEN 1 ELSE 0]] ]
        : ne \in 1 .. MaxEmployees,
          cells \in SUBSET ({<<7 * w + 5, 0>> : w \in Range0(NumWeeks)} \cup {<<4, 1>>}) }

MonthInit == StartOn(MonthRequests)

SpecMonth == MonthInit /\ [][Next]_vars

----------------------------------------------------------------------------
(* The /json handler of app.py, serving two requests at once.  Each request *)
(* goes through the handler's steps; the script it starts is brain2.py,    *)
(* seen from outside: it reads data.json, the solver returns a status, and *)
(* with status FEASIBLE it writes the schedule of what it read.            *)

\* the requests in flight
Clients == {1, 2}

\* request payloads: their identity, and whether a schedule exists for them
Payloads ==
    { [id |-> "A", schedulable |-> TRUE],
      [id |-> "B", schedulable |-> TRUE],
      [id |-> "C", schedulable |-> FALSE],
      [id |-> "D", schedulable |-> FALSE] }

\* a payload served before the two requests arrive
Earlier == [id |-> "earlier", schedulable |-> TRUE]

\* brain.json as the script writes it for the request p it has read
ScheduleOf(p) == [schedule_of |-> p.id]

\* the statuses the solver can return on the request p
StatusesOf(p) == IF p.schedulable THEN {"FEASIBLE", "UNKNOWN"} ELSE {"INFEASIBLE", "UNKNOWN"}

AppInit ==
    /\ req \in { [c \in Clients |->
                    [pc |-> "received", payload |-> ps[c], loaded |-> EmptyObject,
                     status |-> "NONE", stdout |-> "", resp |-> EmptyObject]]
                 : ps \in {f \in [Clients -> Payloads] : f[1].id # f[2].id} }
    /\ files \in { [f \in FileNames |-> IF f = "data.json" THEN Earlier ELSE b]
                   : b \in {EmptyObject, ScheduleOf(Earlier)} }
    /\ data = EmptyObject
    /\ pc = "serving"
    /\ constraints = {}
    /\ objective = {}
    /\ pos = 0
    /\ work = {}
    /\ status = "NONE"
    /\ values = <<>>

\* app.py:61-63: data={}; json.dump(data, outfile) into brain.json
ResetBrain(c) ==
    /\ req[c].pc = "received"
    /\ files' = [files EXCEPT !["brain.json"] = EmptyObject]
    /\ req' = [req EXCEPT ![c].pc = "reset"]
    /\ UNCHANGED <<data, pc, constraints, objective, pos, work, status, values>>

\* app.py:64-66: the request's JSON is written to data.json
WriteData(c) ==
    /\ req[c].pc = "reset"
    /\ files' = [files EXCEPT !["data.json"] = req[c].payload]
    /\ req' = [req EXCEPT ![c].pc = "written"]
    /\ UNCHANGED <<data, pc, constraints, objective, pos, work, status, values>>

\* app.py:68, brain2.py:246-247: the script starts and reads data.json
ScriptLoad(c) ==
    /\ req[c].pc = "written"
    /\ req' = [req EXCEPT ![c].pc = "loaded", ![c].loaded = files["data.json"]]
    /\ UNCHANGED <<data, pc, constraints, objective, pos, work, status, values, files>>

\* brain2.py:1019-1025: the solver returns a status for what the script read
ScriptSolve(c) ==
    /\ req[c].pc = "loaded"
    /\ \E st \in StatusesOf(req[c].loaded) :
          req' = [req EXCEPT ![c].pc = "solved", ![c].status = st]
    /\ UNCHANGED <<data, pc, constraints, objective, pos, work, status, values, files>>

\* brain2.py:1028-1119: with FEASIBLE brain.json and OutFile.txt are written;
\* the status is printed with solver.ResponseStats() on the script's stdout
ScriptPrint(c) ==
    /\ req[c].pc = "solved"
    /\ files' = IF req[c].status = "FEASIBLE"
                THEN [files EXCEPT !["brain.json"] = ScheduleOf(req[c].loaded),
                                   !["OutFile.txt"] = ScheduleOf(req[c].loaded)]
                ELSE files
    /\ req' = [req EXCEPT ![c].pc = "printed", ![c].stdout = req[c].status]
    /\ UNCHANGED <<data, pc, constraints, objective, pos, work, status, values>>

\* app.py:69-72: brain.json is read and returned
ReadBrain(c) ==
    /\ req[c].pc = "printed"
    /\ req' = [req EXCEPT ![c].pc = "responded", ![c].resp = files["brain.json"]]
    /\ UNCHANGED <<data, pc, constraints, objective, pos, work, status, values, files>>

AppNext ==
    \E c \in Clients :
        \/ ResetBrain(c)
        \/ WriteData(c)
        \/ ScriptLoad(c)
        \/ ScriptSolve(c)
        \/ ScriptPrint(c)
        \/ ReadBrain(c)

SpecApp == AppInit /\ [][AppNext]_vars

----------------------------------------------------------------------------
(* add_soft_sequence_constraint, called on its own: the clauses it emits   *)
(* are put to every assignment of its list of variables.                   *)

\* longest list of variables the primitive is called with
MaxSeqLen == 5
\* largest hard or soft bound on the length of a run
MaxRun == 3
\* the non-zero penalty coefficient tried
SeqCost == 2

\* works = [work[0, 0, d] for d in range(n)]
SeqWorks(n) == [i \in 1 .. n |-> <<0, 0, i - 1>>]

SeqCalls ==
    [ n : 0 .. MaxSeqLen,
      hard_min : 0 .. MaxRun, soft_min : 0 .. MaxRun, min_cost : {0, SeqCost},
      soft_max : 0 .. MaxRun, hard_max : 0 .. MaxRun, max_cost : {0, SeqCost} ]

SeqInit ==
    /\ data \in SeqCalls
    /\ pc = "seq_call"
    /\ constraints = {}
    /\ objective = {}
    /\ pos = 0
    /\ work = {}
    /\ status = "NONE"
    /\ values = <<>>
    /\ files = <<>>
    /\ req = <<>>

\* the call: the clauses go to the model, the penalty literals to the objective
SeqBuild ==
    /\ pc = "seq_call"
    /\ LET r == add_soft_sequence_constraint(SeqWorks(data.n), data.hard_min,
                    data.soft_min, data.min_cost, data.soft_max, data.hard_max,
                    data.max_cost, "seq")
       IN  /\ constraints' = r.clauses
           /\ objective' = r.costs
    /\ pc' = "seq_built"
    /\ UNCHANGED <<data, pos, work, status, values, files, req>>

\* One assignment of the variables is put to the clauses.  A penalty literal is
\* true exactly when its clause needs it (the solver minimizes the penalties).
SeqCheck ==
    /\ pc = "seq_built"
    /\ \E w \in SUBSET {SeqWorks(data.n)[i] : i \in 1 .. data.n} :
          LET paid == {t.var : t \in {u \in objective :
                            \E c \in constraints : u.var \in c.lits /\ ~Holds(c, w)}}
          IN  /\ work' = w \cup paid
              /\ status' = IF \A c \in constraints : Holds(c, w \cup paid)
                           THEN "ACCEPTED" ELSE "REJECTED"
    /\ pc' = "seq_done"
    /\ UNCHANGED <<data, constraints, objective, pos, values, files, req>>

SeqNext == SeqBuild \/ SeqCheck

SpecSeq == SeqInit /\ [][SeqNext]_vars

----------------------------------------------------------------------------
(* add_soft_sum_constraint, called on its own.                             *)

\* longest list of variables the primitive is called with
MaxSumLen == 9
\* largest hard or soft bound on the sum
MaxSumBound == 8

\* the bounds tried: the even numbers up to MaxSumBound
SumBounds == {b \in 0 .. MaxSumBound : b % 2 = 0}

\* min_cost and max_cost are 0 or the costs 3 and 2
SumCalls ==
    {c \in [ n : {2, MaxSumLen},
             hard_min : SumBounds, soft_min : SumBounds, min_cost : {0, 3},
             soft_max : SumBounds, hard_max : SumBounds, max_cost : {0, 2} ] :
        c.hard_min <= c.soft_min /\ c.soft_min <= c.soft_max /\ c.soft_max <= c.hard_max}

SumInit ==
    /\ data \in SumCalls
    /\ pc = "sum_call"
    /\ constraints = {}
    /\ objective = {}
    /\ pos = 0
    /\ work = {}
    /\ status = "NONE"
    /\ values = <<>>
    /\ files = <<>>
    /\ req = <<>>

\* the call: the constraints go to the model, the penalty variables to the objective
SumBuild ==
    /\ pc = "sum_call"
    /\ LET r == add_soft_sum_constraint(SeqWorks(data.n), data.hard_min,
                    data.soft_min, data.min_cost, data.soft_max, data.hard_max,
                    data.max_cost, "sum")
       IN  /\ constraints' = r.clauses
           /\ objective' = r.costs
    /\ pc' = "sum_built"
    /\ UNCHANGED <<data, pos, work, status, values, files, req>>

\* One assignment of the variables is put to the constraints; the integer
\* variables take the values the equalities give them.
SumCheck ==
    /\ pc = "sum_built"
    /\ \E w \in SUBSET {SeqWorks(data.n)[i] : i \in 1 .. data.n} :
          /\ work' = w
          /\ values' = [v \in {t.var : t \in objective} |->
                            IntValue(CHOOSE c \in constraints : c.rule = v, w)]
          /\ status' = IF \A c \in constraints : Holds(c, w)
                       THEN "ACCEPTED" ELSE "REJECTED"
    /\ pc' = "sum_done"
    /\ UNCHANGED <<data, constraints, objective, pos, files, req>>

SumNext == SumBuild \/ SumCheck

SpecSum == SumInit /\ [][SumNext]_vars

\* the objective contribution of the returned variables: sum of coefficient * value
ObjectiveValue ==
    SumCoefs({<<t.var, t.coef * values[t.var]>> : t \in objective})

Max0(x) == IF x > 0 THEN x ELSE 0

(* C12: for bounds hard_min <= soft_min <= soft_max <= hard_max, a value of *)
(* sum(works) is feasible under add_soft_sum_constraint if and only if it  *)
(* lies in [hard_min, hard_max], and for every feasible sum the objective  *)
(* contribution of the returned variables is                               *)
(* min_cost * max(0, soft_min - sum) + max_cost * max(0, sum - soft_max).  *)
C12_SumFeasibleAndPenalty ==
    pc = "sum_done" =>
        LET s == Cardinality(work)
        IN  /\ (status = "ACCEPTED") <=> (data.hard_min <= s /\ s <= data.hard_max)
            /\ (status = "ACCEPTED") =>
                  ObjectiveValue = data.min_cost * Max0(data.soft_min - s)
                                   + data.max_cost * Max0(s - data.soft_max)

\* the maximal runs of true values among the n variables: <<first day, length>>
MaximalRuns(w, n) ==
    {r \in Range0(n) \X (1 .. n) :
        /\ r[1] + r[2] <= n
        /\ \A i \in RangeAB(r[1], r[1] + r[2]) : <<0, 0, i>> \in w
        /\ (r[1] > 0 => <<0, 0, r[1] - 1>> \notin w)
        /\ (r[1] + r[2] < n => <<0, 0, r[1] + r[2]>> \notin w)}

(* C11: add_soft_sequence_constraint with hard_min = hard_max = k >= 1 and *)
(* min_cost = max_cost = 0 accepts a Boolean sequence if and only if every *)
(* maximal run of true values in it has length exactly k, and returns no   *)
(* penalty literals.                                                       *)
C11_ExactRunLength ==
    (/\ pc = "seq_done"
     /\ data.hard_min = data.hard_max
     /\ data.hard_min >= 1
     /\ data.min_cost = 0
     /\ data.max_cost = 0)
        => /\ (status = "ACCEPTED")
                <=> (\A r \in MaximalRuns(work, data.n) : r[2] = data.hard_min)
           /\ objective = {}

\* two runs of length 2 in a sequence of 5 are accepted
C11_Witness ==
    /\ pc = "seq_done"
    /\ data.hard_min = 2
    /\ data.hard_max = 2
    /\ data.min_cost = 0
    /\ data.max_cost = 0
    /\ data.n = 5
    /\ Cardinality(MaximalRuns(work, data.n)) = 2
    /\ status = "ACCEPTED"

----------------------------------------------------------------------------
(* Vocabulary of the properties.                                           *)

\* the solver returned an assignment that satisfies the assembled model
Feasible == pc = "solved" /\ status = "FEASIBLE"

RealEmployees == Range0(num_employees(data))

AllEmployees == Range0(num_employees_dummy(data))

Shifts == Range0(num_shifts(data))

Days == Range0(num_days(data))

\* the shift types assigned to employee e on day d
Assigned(e, d) == {s \in Shifts : <<e, s, d>> \in work}

\* the employees (dummy included) assigned to shift s on day d
Staff(s, d) == {e \in AllEmployees : <<e, s, d>> \in work}

\* the required headcount of the non-zero shift s on day d
CoverDemand(d, s) == data.cover_demands[d][s - 1]

----------------------------------------------------------------------------
(* C1: in every assignment that satisfies the model, for every day and     *)
(* every non-zero shift the number of employees (dummy included) working   *)
(* the shift equals the coverage demand exactly.                           *)
C1_CoverageExact ==
    Feasible =>
        \A d \in Days : \A s \in Shifts \ {0} :
            Cardinality(Staff(s, d)) = CoverDemand(d, s)

\* a satisfying assignment in which the dummy and a real employee share a shift
C1_Witness ==
    /\ Feasible
    /\ \E d \in Days : \E s \in Shifts \ {0} :
          /\ CoverDemand(d, s) >= 2
          /\ num_employees(data) \in Staff(s, d)
          /\ Staff(s, d) \cap RealEmployees # {}

(* C2: in every assignment that satisfies the model, every real employee   *)
(* has 1 or 2 shift types (off included) on every day, and at most one of  *)
(* them is not flagged allowed-to-combine.                                 *)
C2_CardinalityPerDay ==
    Feasible =>
        \A e \in RealEmployees : \A d \in Days :
            /\ Cardinality(Assigned(e, d)) \in {1, 2}
            /\ Cardinality(Assigned(e, d) \ data.allow_combination) <= 1

\* a real employee with two shift types on one day, one of them combinable
C2_Witness ==
    /\ Feasible
    /\ \E e \in RealEmployees : \E d \in Days :
          /\ Cardinality(Assigned(e, d)) = 2
          /\ Cardinality(Assigned(e, d) \ data.allow_combination) = 1

(* C3: [as claimed] in every assignment that satisfies the model, a real    *)
(* employee who has a non-combinable shift on a day has exactly one shift  *)
(* type that day.                                                          *)
C3_NonCombinableAlone ==
    Feasible =>
        \A e \in RealEmployees : \A d \in Days :
            (Assigned(e, d) \ data.allow_combination # {})
                => Cardinality(Assigned(e, d)) = 1

(* C3, as the code has it: a non-combinable shift of a real employee is    *)
(* paired with at most one further shift type that day, and that one is    *)
(* flagged allowed-to-combine.                                             *)
C3_NonCombinableWithCombinableOnly ==
    Feasible =>
        \A e \in RealEmployees : \A d \in Days :
            \A s \in Assigned(e, d) \ data.allow_combination :
                /\ (Assigned(e, d) \ {s}) \subseteq data.allow_combination
                /\ Cardinality(Assigned(e, d) \ {s}) <= 1

\* a real employee who is off (non-combinable) and works the combinable day shift
C3_Witness ==
    /\ Feasible
    /\ \E e \in RealEmployees : \E d \in Days :
          /\ Assigned(e, d) = {0, 1}
          /\ 0 \notin data.allow_combination
          /\ 1 \in data.allow_combination

(* C4: in every assignment that satisfies the model, a real employee who   *)
(* works a night-classified shift on day d < numDays-1 (days before the    *)
(* offset included) has the off shift on day d+1.                          *)
C4_RestAfterNight ==
    Feasible =>
        \A e \in RealEmployees : \A n \in data.night_shifts :
            \A d \in Range0(num_days(data) - 1) :
                (<<e, n, d>> \in work) => (<<e, 0, d + 1>> \in work)

\* a real employee works a night before the offset and one on the last but one day
C4_Witness ==
    /\ Feasible
    /\ \E e \in RealEmployees : \E n \in data.night_shifts :
          \E d \in Range0(num_days(data) - 1) :
              /\ <<e, n, d>> \in work
              /\ d < data.offset
    /\ \E e \in RealEmployees : \E n \in data.night_shifts :
          <<e, n, num_days(data) - 2>> \in work

(* C5: in every assignment that satisfies the model, a real employee who   *)
(* works a night-classified shift on day d has on day d+1 the off shift    *)
(* and no other shift beside it.                                           *)
C5_OnlyOffAfterNight ==
    Feasible =>
        \A e \in RealEmployees : \A n \in data.night_shifts :
            \A d \in Range0(num_days(data) - 1) :
                (<<e, n, d>> \in work) => Assigned(e, d + 1) = {0}

\* the night-classified shifts employee e works on the days d .. d+6
NightsInWindow(e, d) ==
    {v \in work : v[1] = e /\ v[2] \in data.night_shifts /\ v[3] \in d .. (d + 6)}

(* C6: in every assignment that satisfies the model, every real employee   *)
(* works at most one night-classified shift in every window of 7 days      *)
(* [d, d+6] with offset <= d and d+6 <= numDays-1, the last window, which  *)
(* ends on the final day, included.                                        *)
C6_OneNightPerWindow ==
    Feasible =>
        \A e \in RealEmployees : \A d \in Days :
            (data.offset <= d /\ d + 6 <= num_days(data) - 1)
                => Cardinality(NightsInWindow(e, d)) <= 1

(* C7: for every skill entry (e, s, 0) and every day d in [offset,         *)
(* numDays), work[e,s,d] is false in every assignment that satisfies the   *)
(* model unless (e,s,d) is a fixed assignment; on a fixed assignment the   *)
(* skill rule places no constraint.                                        *)
C7_SkillForbids ==
    /\ Feasible =>
          \A k \in data.skills : \A d \in RangeAB(data.offset, num_days(data)) :
              (k[3] = 0 /\ <<k[1], k[2], d>> \notin data.fixed_assignments)
                  => <<k[1], k[2], d>> \notin work
    /\ \A c \in constraints :
          c.rule = "skill" => VarsOf(c) \cap data.fixed_assignments = {}

\* an employee without the skill works the shift on the fixed day, and the
\* shift is demanded on another day in scope, where that employee stays away
C7_Witness ==
    /\ Feasible
    /\ \E k \in data.skills : \E d, d2 \in RangeAB(data.offset, num_days(data)) :
          /\ k[3] = 0
          /\ <<k[1], k[2], d>> \in data.fixed_assignments \cap work
          /\ d2 # d
          /\ CoverDemand(d2, k[2]) >= 1
          /\ <<k[1], k[2], d2>> \notin work

(* C8: every fixed assignment (e,s,d) and every request (e,s,d,0) with     *)
(* d >= offset has work[e,s,d] true in every assignment that satisfies the *)
(* model; with d < offset it adds no constraint and no objective term.     *)
C8_FixedAndRequestsHonoured ==
    /\ Feasible =>
          /\ \A f \in data.fixed_assignments : f[3] >= data.offset => f \in work
          /\ \A r \in data.requests :
                (r[4] = 0 /\ r[3] >= data.offset) => <<r[1], r[2], r[3]>> \in work
    /\ \A c \in constraints :
          c.rule \in {"fixed", "request"} => \A v \in VarsOf(c) : v[3] >= data.offset
    /\ \A t \in objective : t.rule = "request" => t.var[3] >= data.offset

\* a fixed assignment in scope is honoured while a zero-weight request before
\* the offset is left ungranted
C8_Witness ==
    /\ Feasible
    /\ \E f \in data.fixed_assignments : f[3] >= data.offset /\ f \in work
    /\ \E r \in data.requests :
          /\ r[4] = 0
          /\ r[3] < data.offset
          /\ CoverDemand(r[3], r[2]) >= 1
          /\ <<r[1], r[2], r[3]>> \notin work

\* minute m of the day lies in the half-open window from st to en, which
\* wraps past midnight when en < st
InWindow(m, st, en) ==
    IF st <= en THEN st <= m /\ m < en ELSE m >= st \/ m < en

\* the time windows of shifts s1 and s2 share a minute of the day
WindowsOverlap(s1, s2) ==
    LET a1 == convert_to_minutes(data.funktioner_tider[s1][1])
        b1 == convert_to_minutes(data.funktioner_tider[s1][2])
        a2 == convert_to_minutes(data.funktioner_tider[s2][1])
        b2 == convert_to_minutes(data.funktioner_tider[s2][2])
    IN  \/ InWindow(a1, a2, b2) /\ InWindow(a1, a1, b1)
        \/ InWindow(a2, a1, b1) /\ InWindow(a2, a2, b2)

(* C9: [as claimed] in every assignment that satisfies the model, no real  *)
(* employee has on one day two shift types whose time windows overlap      *)
(* unless both are flagged overlap-allowed.                                *)
C9_OverlapOnlyIfBothAllowed ==
    Feasible =>
        \A e \in RealEmployees : \A d \in Days :
            \A s1, s2 \in Assigned(e, d) :
                (s1 # s2 /\ WindowsOverlap(s1, s2))
                    => (s1 \in data.allow_overlap /\ s2 \in data.allow_overlap)

(* C9, as the code has it: two shift types of a real employee on one day   *)
(* have overlapping time windows only if at least one of the two is        *)
(* flagged overlap-allowed.                                                *)
C9_OverlapOnlyIfOneAllowed ==
    Feasible =>
        \A e \in RealEmployees : \A d \in Days :
            \A s1, s2 \in Assigned(e, d) :
                (s1 # s2 /\ WindowsOverlap(s1, s2))
                    => (s1 \in data.allow_overlap \/ s2 \in data.allow_overlap)

\* a real employee works two overlapping shifts, one of them overlap-allowed
C9_Witness ==
    /\ Feasible
    /\ \E e \in RealEmployees : \E d \in Days :
          \E s1, s2 \in Assigned(e, d) :
              /\ s1 # s2
              /\ WindowsOverlap(s1, s2)
              /\ s1 \in data.allow_overlap

\* the exact-coverage equalities of the assembled model can all be satisfied:
\* they read disjoint variables, and each of them has a solution
CoverageSatisfiable ==
    LET cov == {c \in constraints : c.rule = "coverage"}
    IN  /\ \A c1, c2 \in cov : c1 # c2 => VarsOf(c1) \cap VarsOf(c2) = {}
        /\ \A c \in cov : \E w \in SUBSET VarsOf(c) : Holds(c, w)

\* the model has been assembled and the solver has not assigned anything yet
Assembled == pc = "solving" /\ pos = 0

(* C10: [as claimed] for every coverage-demand matrix of non-negative      *)
(* integers and any number of real employees some assignment of the cube   *)
(* satisfies all exact-coverage equalities.                                *)
C10_DummyAbsorbsAnyDemand ==
    Assembled => CoverageSatisfiable

\* the night-classified shifts employee e works on the days [offset, numDays)
NightsWorked(e) ==
    Cardinality({v \in work : /\ v[1] = e
                              /\ v[2] \in data.night_shifts
                              /\ v[3] >= data.offset})

(* C13: in every assignment that satisfies the model, every nightshift_diff *)
(* variable of the objective equals the largest minus the smallest number  *)
(* of night shifts a real employee works on the days [offset, numDays).    *)
C13_NightSpreadIsMaxMinusMin ==
    Feasible =>
        \A t \in {u \in objective : u.rule = "nightshift_diff"} :
            \E hi, lo \in RealEmployees :
                /\ \A e \in RealEmployees :
                      NightsWorked(lo) <= NightsWorked(e) /\ NightsWorked(e) <= NightsWorked(hi)
                /\ values[t.var] = NightsWorked(hi) - NightsWorked(lo)

\* two employees with different night counts, one of them with a night shift
\* before the offset that is not counted
C13_Witness ==
    /\ Feasible
    /\ data.offset > 0
    /\ \E t \in objective : t.rule = "nightshift_diff" /\ values[t.var] = 1
    /\ \E e \in RealEmployees : \E d \in Range0(data.offset) :
          /\ <<e, 2, d>> \in work
          /\ NightsWorked(e) = 0

\* the script has ended after the solver returned a schedule
Printed == pc = "done" /\ status = "FEASIBLE"

\* employee e is listed under shift s on day d of brain.json: the name of e
\* is one of the names of the entry of day d in the list of the shift's name
ListedInBrain(e, s, d) ==
    LET entry == files["brain.json"][data.shifts[s + 1]][d + 1]
    IN  \E i \in DOMAIN entry.ansatte : entry.ansatte[i] = employees_dummy(data)[e + 1]

\* employee e is listed under shift s on day d of OutFile.txt: under fri for
\* the shift named "Sove", as shift:employee for any other shift
ListedInOutFile(e, s, d) ==
    LET line == files["OutFile.txt"][d + 1]
    IN  IF data.shifts[s + 1] = "Sove"
        THEN \E i \in DOMAIN line.fri : line.fri[i] = employees_dummy(data)[e + 1]
        ELSE \E i \in DOMAIN line.skema :
                line.skema[i] = <<data.shifts[s + 1], employees_dummy(data)[e + 1]>>

\* the assignment read back from brain.json
Decoded ==
    {v \in Cube(data) : ListedInBrain(v[1], v[2], v[3])}

C20_ShortShiftPaired ==
    Feasible =>
        \A e \in RealEmployees : \A d \in Days : \A s \in Shifts \ {0} :
            (data.funktioner_tider[s][3] < 6 /\ <<e, s, d>> \in work) =>
                /\ Cardinality(Assigned(e, d)) = 2
                /\ 0 \notin Assigned(e, d)

\* a real employee works the short day shift together with the night shift
C20_Witness ==
    /\ Feasible
    /\ data.funktioner_tider[1][3] < 6
    /\ \E e \in RealEmployees : \E d \in Days : Assigned(e, d) = {1, 2}

\* a fixed assignment, a request or a skill entry of the request names an
\* employee, a shift or a day that the request does not have
NamesOutOfRange(dt) ==
    \/ \E f \in dt.fixed_assignments : <<f[1], f[2], f[3]>> \notin Cube(dt)
    \/ \E r \in dt.requests : <<r[1], r[2], r[3]>> \notin Cube(dt)
    \/ \E k \in dt.skills : <<k[1], k[2], 0>> \notin Cube(dt)

(* C17: [as claimed] a request with a fixed assignment, a request tuple or *)
(* a skill entry that names an index out of range never gets past the     *)
(* assembly: the solver is not called on it.                               *)
C17_OutOfRangeFailsAssembly ==
    NamesOutOfRange(data) => pc \in {"loaded", "crashed"}

\* two fixed assignments of one real employee on one day from the offset on
\* to two shifts that may not be combined, or a zero-weight request from the
\* offset on for a shift that a skill entry forbids the employee
Contradictory(dt) ==
    \/ \E f1, f2 \in dt.fixed_assignments :
          /\ f1[1] = f2[1] /\ f1[3] = f2[3] /\ f1[2] # f2[2]
          /\ f1[1] \in Range0(num_employees(dt))
          /\ f1[3] > dt.offset - 1
          /\ {f1[2], f2[2]} \subseteq funktioner_no_combination(dt)
    \/ \E r \in dt.requests :
          /\ r[4] = 0
          /\ r[3] > dt.offset - 1
          /\ <<r[1], r[2], 0>> \in dt.skills

(* C18: [as claimed] a request with contradictory forced literals never     *)
(* ends with the solver status INFEASIBLE: the assembly fails on it.       *)
C18_ContradictionNeverInfeasible ==
    Contradictory(data) => status # "INFEASIBLE"

\* request c has been answered
Responded(c) == req[c].pc = "responded"

(* C15: [as claimed] a request whose solver run ends INFEASIBLE or UNKNOWN  *)
(* is answered with the empty object.                                      *)
C15_NoScheduleWithoutSolution ==
    \A c \in Clients :
        (Responded(c) /\ req[c].status \in {"INFEASIBLE", "UNKNOWN"}) =>
            req[c].resp = EmptyObject

(* C16: [as claimed] the answer to a request whose solver run ends UNKNOWN *)
(* differs from the answer to a request whose run ends INFEASIBLE.         *)
C16_TimeoutDistinctFromInfeasible ==
    \A c1, c2 \in Clients :
        (/\ Responded(c1) /\ req[c1].status = "UNKNOWN"
         /\ Responded(c2) /\ req[c2].status = "INFEASIBLE") =>
            req[c1].resp # req[c2].resp

(* C19: [as claimed] whatever the interleaving of two requests, each is     *)
(* answered from its own payload: the script read the request's payload,   *)
(* and the answer is the schedule of that payload if the solver found one  *)
(* and the empty object if not.                                            *)
C19_RequestsIndependent ==
    \A c \in Clients :
        Responded(c) =>
            /\ req[c].loaded = req[c].payload
            /\ req[c].resp = IF req[c].status = "FEASIBLE"
                             THEN ScheduleOf(req[c].payload)
                             ELSE EmptyObject

----------------------------------------------------------------------------
(* test_overlap, called on its own on two time windows.                    *)

\* the times of day "HH:MM" the windows are drawn from
OverlapTimes ==
    {<<0, 0>>, <<0, 1>>, <<8, 0>>, <<15, 30>>, <<16, 0>>, <<23, 59>>}

OverlapCalls ==
    [t1_st : OverlapTimes, t1_end : OverlapTimes, t2_st : OverlapTimes, t2_end : OverlapTimes]

OverlapInit ==
    /\ data \in OverlapCalls
    /\ pc = "overlap_call"
    /\ constraints = {}
    /\ objective = {}
    /\ pos = 0
    /\ work = {}
    /\ status = "NONE"
    /\ values = <<>>
    /\ files = <<>>
    /\ req = <<>>

\* the call: the value test_overlap returns is kept
OverlapCall ==
    /\ pc = "overlap_call"
    /\ values' = [overlap |-> test_overlap(data.t1_st, data.t1_end, data.t2_st, data.t2_end)]
    /\ pc' = "overlap_done"
    /\ UNCHANGED <<data, constraints, objective, pos, work, status, files, req>>

OverlapNext == OverlapCall

SpecOverlap == OverlapInit /\ [][OverlapNext]_vars

\* the minutes of a day
MinutesOfDay == Range0(24 * 60)

\* the half-open windows from st1 to en1 and from st2 to en2 (times of day,
\* a window with en < st wrapping past midnight) share a minute of the day
ShareMinute(st1, en1, st2, en2) ==
    \E m \in MinutesOfDay :
        /\ InWindow(m, convert_to_minutes(st1), convert_to_minutes(en1))
        /\ InWindow(m, convert_to_minutes(st2), convert_to_minutes(en2))

\* the window from st to en wraps past midnight
Wraps(st, en) == convert_to_minutes(en) < convert_to_minutes(st)

(* C27: for two windows with start # end, test_overlap returns true if and *)
(* only if the half-open windows share a minute of the day (a window with  *)
(* end < start wrapping past midnight); it is symmetric in its two         *)
(* windows, true whenever both windows wrap, and false for two windows     *)
(* that do not wrap and merely touch.                                      *)
C27_OverlapIffShareMinute ==
    (/\ pc = "overlap_done"
     /\ data.t1_st # data.t1_end
     /\ data.t2_st # data.t2_end)
        => /\ values.overlap
                <=> ShareMinute(data.t1_st, data.t1_end, data.t2_st, data.t2_end)
           /\ values.overlap
                = test_overlap(data.t2_st, data.t2_end, data.t1_st, data.t1_end)
           /\ (Wraps(data.t1_st, data.t1_end) /\ Wraps(data.t2_st, data.t2_end))
                => values.overlap
           /\ (/\ ~Wraps(data.t1_st, data.t1_end)
               /\ ~Wraps(data.t2_st, data.t2_end)
               /\ data.t1_end = data.t2_st)
                => ~values.overlap

\* a window that wraps and a window that does not wrap overlap only in the
\* part after midnight
C27_Witness ==
    /\ pc = "overlap_done"
    /\ Wraps(data.t1_st, data.t1_end)
    /\ ~Wraps(data.t2_st, data.t2_end)
    /\ data.t2_st # data.t2_end
    /\ convert_to_minutes(data.t1_st) >= convert_to_minutes(data.t2_end)
    /\ values.overlap

\* the penalty paid for the assignment: the coefficients of the penalty
\* literals that are true, none being true unless its clause needs it
SeqPenalty ==
    SumCoefs({<<t.var, t.coef>> : t \in {u \in objective : u.var \in work}})

\* every maximal run of true values has a length within the hard bounds
WithinHardBounds ==
    \A r \in MaximalRuns(work, data.n) : data.hard_min <= r[2] /\ r[2] <= data.hard_max

\* the penalty of a maximal run of length len by the soft bounds
RunPenalty(len) ==
    (IF len < data.soft_min THEN data.min_cost * (data.soft_min - len) ELSE 0)
    + (IF len > data.soft_max THEN data.max_cost * (len - data.soft_max) ELSE 0)

(* C26: [as claimed] for every Boolean sequence within the hard bounds the *)
(* minimum total penalty over the literals add_soft_sequence_constraint    *)
(* returns is the sum, over the maximal runs of true values, of            *)
(* min_cost*(soft_min - L) for a run shorter than soft_min plus            *)
(* max_cost*(L - soft_max) for a run longer than soft_max; where there is  *)
(* no run of true values there is no penalty, also with hard_min = 0.      *)
C26_PenaltyOnlyForRuns ==
    (pc = "seq_done" /\ WithinHardBounds) =>
        SeqPenalty = SumCoefs({<<r, RunPenalty(r[2])>> : r \in MaximalRuns(work, data.n)})

(* C21: [as claimed] in every assignment that satisfies the model, the     *)
(* objective contribution of the variable added for a real employee e, a   *)
(* shift s with weekly maximum m and a week w is the positive weight times *)
(* the excess over m of the number of days among 7w .. 7w+6 on which e     *)
(* works s: zero up to the cap, growing with the count beyond it.          *)
C21_WeeklyExcessPenalized ==
    Feasible =>
        \A t \in {u \in objective : u.rule = "excess_shifts"} :
            LET e == t.var[2]
                s == t.var[3][1]
                m == t.var[3][2]
                w == t.var[4]
                count == Cardinality({d \in RangeAB(7 * w, 7 * w + 7) : <<e, s, d>> \in work})
            IN  /\ t.coef > 0
                /\ t.coef * values[t.var] = t.coef * Max0(count - m)

\* the assignment in which the dummy works the shift v in place of its
\* employee, who is off that day if that was the only shift
HandedToDummy(v) ==
    (work \ {v}) \cup {<<num_employees(data), v[2], v[3]>>}
        \cup (IF Assigned(v[1], v[3]) = {v[2]} THEN {<<v[1], 0, v[3]>>} ELSE {})

(* C22: [as claimed] in every assignment that satisfies the model the      *)
(* hours a real employee works on the days [offset, numDays) are at most   *)
(* the ceiling derived from the contracted hours, and an assignment that   *)
(* satisfies the model too and in which the employee works fewer hours     *)
(* (one shift is handed to the dummy) has a strictly larger objective      *)
(* contribution of the employee's work-hours term.                         *)
C22_ShortfallPenalized ==
    Feasible =>
        \A t \in {u \in objective : u.rule = "excess_workhours"} :
            /\ SumTerms(HourTerms(data, t.var[2]), work) <= max_workhour(data, t.var[2])
            /\ \A v \in {x \in work : x[1] = t.var[2] /\ x[2] # 0 /\ x[3] >= data.offset} :
                  (\A c \in constraints : Holds(c, HandedToDummy(v))) =>
                      t.coef * IntVarValue(data, HandedToDummy(v), t.var)
                          > t.coef * values[t.var]

(* C23: [as claimed] in an optimal solution (no indicator of a transition  *)
(* tuple with cost > 0 could still be changed to lower the objective) the  *)
(* objective is lowered by cost for an instance of the tuple only when the *)
(* first shift is worked and the second follows on the prescribed day, and *)
(* an instance whose first shift is worked without the second has a        *)
(* strictly worse contribution than -cost.                                 *)
C23_RewardOnlyWhenGranted ==
    LET terms == {u \in objective :
                    /\ u.rule \in {"desired_day_transition", "desired_shift_transition"}
                    /\ u.var[2].cost > 0}
    IN  (Feasible /\ \A t \in terms : values[t.var] = 1) =>
            \A t \in terms :
                /\ (t.coef * values[t.var] = 0 - t.var[2].cost)
                      => (t.var[2].first \in work /\ t.var[2].second \in work)
                /\ (t.var[2].first \in work /\ t.var[2].second \notin work)
                      => t.coef * values[t.var] > 0 - t.var[2].cost

(* C24: [as claimed] in every assignment that satisfies the model, the     *)
(* spread variable of an equalization group (shift s, members) equals the  *)
(* largest minus the smallest number of days in [offset, numDays) on which *)
(* a member of the group works shift s.                                    *)
C24_GroupSpreadIsMaxMinusMin ==
    Feasible =>
        \A t \in {u \in objective : u.rule = "equalfunctions_diff"} :
            LET s == t.var[2][1]
                members == {ansatte_index(data, t.var[2][2][i]) : i \in 1 .. Len(t.var[2][2])}
                count(e) == Cardinality({d \in RangeAB(data.offset, num_days(data)) :
                                            <<e, s, d>> \in work})
            IN  \E hi, lo \in members :
                    /\ \A e \in members : count(lo) <= count(e) /\ count(e) <= count(hi)
                    /\ values[t.var] = count(hi) - count(lo)

\* the weeks in which employee e works a weekend: a shift other than off on
\* the Saturday or the Sunday, or a night-classified shift on the Friday
WeekendWeeks(e) ==
    {w \in Range0(data.number_of_weeks) :
        \/ \E s \in Shifts \ {0} : <<e, s, 7 * w + 5>> \in work \/ <<e, s, 7 * w + 6>> \in work
        \/ \E n \in data.night_shifts : <<e, n, 7 * w + 4>> \in work}

EagerAssignment(dt) ==
    {v \in Cube(dt) :
        IF v[1] = 0
        THEN IF v[2] = 0
             THEN \A s \in RangeAB(1, num_shifts(dt)) : needed(dt, v[3], s) = 0
             ELSE needed(dt, v[3], v[2]) > 0
        ELSE v[2] = 0}

(* C25: [as claimed] the limit on worked weekends is soft: an assignment   *)
(* in which a real employee works more than 2 weekends in 4 consecutive    *)
(* weeks, 4 out of 4 included, satisfies the model when it satisfies every *)
(* hard rule other than the weekend limit.                                 *)
C25_WeekendLimitSoft ==
    Assembled =>
        ((\A c \in constraints : c.rule # "weekends_in_month" => Holds(c, EagerAssignment(data)))
            => \A c \in constraints : Holds(c, EagerAssignment(data)))

====
